---- MODULE Spec2Model ----
(***************************************************************************)
(* Model of the advanced_copy Blender add-on: the collection-hierarchy     *)
(* resolver (get_or_create_collection, find_parent_collection,             *)
(* get_contextual_op_type, find_all_scene_collections,                     *)
(* find_top_level_scene_collection_by_str, find_shot_collection,           *)
(* find_scene_collection), the timeline helpers                            *)
(* (get_current_shot_info, get_scene_frame_range), the visibility          *)
(* keyframing (toggle_object_visibility) and the operators                 *)
(* copy_to_current_shot and copy_to_current_scene.                         *)
(*                                                                         *)
(* The repository ships the resolver twice: the package variant            *)
(* (src/core/*.py, used by src/operators/*.py) and the single-file variant *)
(* (src/utils.py, used by src/operators.py).  The variable `variant` says  *)
(* which of the two is installed; the operations dispatch on it.           *)
(*                                                                         *)
(* Collection and marker names are Python strings and are modelled as      *)
(* strings; upper(), startswith(), endswith(), strip(), split(), join(),   *)
(* the `in` substring test and re.match are computed character by          *)
(* character.                                                              *)
(***************************************************************************)
EXTENDS Integers, Sequences, FiniteSets, TLC

VARIABLES
    variant,        \* "core" (src/core, src/operators/) or "utils" (src/utils.py, src/operators.py)
    collections,    \* bpy.data.collections: sequence of collection names, in registry order
    children,       \* collection name -> set of names of its direct children (coll.children)
    users,          \* object -> sequence of collection names (obj.users_collection)
    parent_cache,   \* module global _parent_cache: child name -> parent name or None
    markers,        \* context.scene.timeline_markers: sequence of [name, frame, camera]
    frame_current,  \* context.scene.frame_current
    frame_end,      \* context.scene.frame_end
    keyframes,      \* object -> [hide_viewport, hide_render]: the keys of the channel, frame -> value
    copies,         \* the copies the operators have made: [original, copy, op, start, end]
    last            \* the last call made: operation, arguments, result, collections created

vars == <<variant, collections, children, users, parent_cache,
          markers, frame_current, frame_end, keyframes, copies, last>>

forestVars == <<collections, children, users, parent_cache>>
timelineVars == <<markers, frame_current, frame_end>>
objectVars == <<keyframes, copies>>

-----------------------------------------------------------------------------
(* Python None where a collection is expected (no collection has this name) *)
None == "<None>"

(***************************************************************************)
(* Python str operations                                                   *)
(***************************************************************************)
LowerLetters == "abcdefghijklmnopqrstuvwxyz"
UpperLetters == "ABCDEFGHIJKLMNOPQRSTUVWXYZ"
Digits == "0123456789"

Ch(s, i) == SubSeq(s, i, i)

(* lower-case letter -> upper-case letter *)
ToUpper == [c \in {Ch(LowerLetters, i) : i \in 1..Len(LowerLetters)} |->
               Ch(UpperLetters, CHOOSE i \in 1..Len(LowerLetters) : Ch(LowerLetters, i) = c)]

UpperChar(c) == IF c \in DOMAIN ToUpper THEN ToUpper[c] ELSE c

RECURSIVE Upper(_)
Upper(s) == IF s = "" THEN "" ELSE UpperChar(Ch(s, 1)) \o Upper(SubSeq(s, 2, Len(s)))

IsDigit(c) == c \in {"0", "1", "2", "3", "4", "5", "6", "7", "8", "9"}

StartsWith(s, p) == Len(p) <= Len(s) /\ SubSeq(s, 1, Len(p)) = p

EndsWith(s, p) == Len(p) <= Len(s) /\ SubSeq(s, Len(s) - Len(p) + 1, Len(s)) = p

(* sub in s *)
Contains(s, sub) ==
    \E i \in 1..(Len(s) - Len(sub) + 1) : SubSeq(s, i, i + Len(sub) - 1) = sub

RECURSIVE LStrip(_, _)
LStrip(s, c) == IF s # "" /\ Ch(s, 1) = c THEN LStrip(SubSeq(s, 2, Len(s)), c) ELSE s

RECURSIVE RStrip(_, _)
RStrip(s, c) ==
    IF s # "" /\ Ch(s, Len(s)) = c THEN RStrip(SubSeq(s, 1, Len(s) - 1), c) ELSE s

(* s.strip(c) for a one-character c *)
Strip(s, c) == RStrip(LStrip(s, c), c)

(* s.split(sep) for a one-character sep: the sequence of the parts *)
RECURSIVE Split(_, _)
Split(s, sep) ==
    IF \E i \in 1..Len(s) : Ch(s, i) = sep
    THEN LET i == CHOOSE k \in 1..Len(s) :
                      Ch(s, k) = sep /\ \A j \in 1..(k - 1) : Ch(s, j) # sep
         IN  <<SubSeq(s, 1, i - 1)>> \o Split(SubSeq(s, i + 1, Len(s)), sep)
    ELSE <<s>>

(* sep.join(parts) *)
RECURSIVE Join(_, _)
Join(parts, sep) ==
    IF parts = <<>> THEN ""
    ELSE IF Len(parts) = 1 THEN parts[1]
    ELSE parts[1] \o sep \o Join(Tail(parts), sep)

-----------------------------------------------------------------------------
(***************************************************************************)
(* Bounds of the model                                                     *)
(***************************************************************************)
MaxMarkers == 2        \* at most this many timeline markers
MaxFrame == 3          \* markers sit on frames 1..MaxFrame

(***************************************************************************)
(* Timeline helpers (src/core/shot_utils.py, identical in src/utils.py)    *)
(***************************************************************************)
(* Python None where a dict or a tuple is expected; a dict result d is <<d>> *)
NoResult == <<>>

MinOf(S) == CHOOSE x \in S : \A y \in S : x <= y
MaxOf(S) == CHOOSE x \in S : \A y \in S : y <= x

(* faulty variant: the camera filter is left out *)
CameraMarkers_all(M) == [i \in 1..Len(M) |-> i]

(* [m for m in timeline_markers if m.camera], as positions in timeline_markers *)
CameraMarkers(M) == SelectSeq([i \in 1..Len(M) |-> i], LAMBDA i : M[i].camera)

(* faulty variant: the markers are taken in timeline order, unsorted *)
SortedByFrame_unsorted(M, idx) == idx

(* sorted(..., key=lambda m: m.frame): stable insertion by frame *)
RECURSIVE SortedByFrame(_, _)
SortedByFrame(M, idx) ==
    IF idx = <<>> THEN <<>>
    ELSE LET init == SortedByFrame(M, SubSeq(idx, 1, Len(idx) - 1))
             i == idx[Len(idx)]
             k == Cardinality({j \in 1..Len(init) : M[init[j]].frame <= M[i].frame})
         IN  SubSeq(init, 1, k) \o <<i>> \o SubSeq(init, k + 1, Len(init))

(* number of digits of s from position i on *)
RECURSIVE DigitRun(_, _)
DigitRun(s, i) == IF i <= Len(s) /\ IsDigit(Ch(s, i)) THEN 1 + DigitRun(s, i + 1) ELSE 0

(* faulty variant: the pattern CAM-(SC\d+)-(SH\d), one digit only in the shot group *)
re_match_oneDigit(name) ==
    LET u == Upper(name)
        k1 == DigitRun(u, 7)
        k2 == DigitRun(u, 10 + k1)
    IN  IF /\ StartsWith(u, "CAM-SC")
           /\ k1 >= 1
           /\ SubSeq(u, 7 + k1, 9 + k1) = "-SH"
           /\ k2 >= 1
        THEN <<SubSeq(name, 5, 6 + k1), SubSeq(name, 8 + k1, 10 + k1)>>
        ELSE NoResult

(* re.match(r"CAM-(SC\d+)-(SH\d+)", name, re.IGNORECASE): <<group 1, group 2>> or NoResult *)
re_match(name) ==
    LET u == Upper(name)
        k1 == DigitRun(u, 7)
        k2 == DigitRun(u, 10 + k1)
    IN  IF /\ StartsWith(u, "CAM-SC")
           /\ k1 >= 1
           /\ SubSeq(u, 7 + k1, 9 + k1) = "-SH"
           /\ k2 >= 1
        THEN <<SubSeq(name, 5, 6 + k1), SubSeq(name, 8 + k1, 9 + k1 + k2)>>
        ELSE NoResult

get_current_shot_info(M, current_frame, scene_frame_end) ==
    LET ms == SortedByFrame(M, CameraMarkers(M))
        end_frame(i) == IF i + 1 <= Len(ms) THEN M[ms[i + 1]].frame - 1
                        ELSE scene_frame_end
        inRange == {i \in 1..Len(ms) :
                       M[ms[i]].frame <= current_frame /\ current_frame <= end_frame(i)}
    IN  IF ms = <<>> THEN NoResult
        ELSE IF inRange = {} THEN NoResult
        ELSE LET i == MinOf(inRange)
                 current_shot_marker == M[ms[i]]
                 match == re_match(current_shot_marker.name)
             IN  IF match = NoResult THEN NoResult
                 ELSE <<[name |-> current_shot_marker.name,
                         start |-> current_shot_marker.frame,
                         end |-> end_frame(i),
                         scene_str |-> Upper(match[1]),
                         shot_str |-> Upper(match[2])]>>

(* faulty variant: the scene's last marker is looked up among the scene's own markers,
   so that nothing ever follows it *)
get_scene_frame_range_ownIndex(M, scene_frame_end, scene_str) ==
    LET scene_idx == SelectSeq([i \in 1..Len(M) |-> i],
                        LAMBDA i : M[i].camera
                                   /\ Contains(Upper(M[i].name), "-" \o Upper(scene_str) \o "-"))
        scene_markers == SortedByFrame(M, scene_idx)
    IN  IF scene_markers = <<>> THEN NoResult
        ELSE <<M[scene_markers[1]].frame, scene_frame_end>>

get_scene_frame_range(M, scene_frame_end, scene_str) ==
    LET scene_idx == SelectSeq([i \in 1..Len(M) |-> i],
                        LAMBDA i : M[i].camera
                                   /\ Contains(Upper(M[i].name), "-" \o Upper(scene_str) \o "-"))
        scene_markers == SortedByFrame(M, scene_idx)
        all_markers == SortedByFrame(M, CameraMarkers(M))
    IN  IF scene_markers = <<>> THEN NoResult
        ELSE LET start_frame == M[scene_markers[1]].frame
                 last_shot_marker == scene_markers[Len(scene_markers)]
                 last_marker_index ==
                     CHOOSE k \in 1..Len(all_markers) : all_markers[k] = last_shot_marker
                 end_frame == IF last_marker_index + 1 <= Len(all_markers)
                              THEN M[all_markers[last_marker_index + 1]].frame - 1
                              ELSE scene_frame_end
             IN  <<start_frame, end_frame>>

-----------------------------------------------------------------------------
(***************************************************************************)
(* The collection forest (src/core/collection_utils.py, src/utils.py).     *)
(* A forest F is [collections, children]: the registry bpy.data.collections*)
(* as a sequence of names and, for each name, the set of names of its      *)
(* direct children.  Blender keeps collection names unique in the file.    *)
(***************************************************************************)
MaxCalls == 3          \* a run makes at most this many calls of the resolver
WalkLimit == 32        \* range(32) in get_contextual_op_type

Range(f) == {f[i] : i \in DOMAIN f}

(* bpy.data.collections.new(name=...): the host gives the new data-block the
   requested name ("Collection" for an empty one) if no collection bears it,
   else the name with the first free numeric suffix .001, .002, ... *)
unique_name(F, requested) ==
    LET name == IF requested = "" THEN "Collection" ELSE requested
    IN  IF name \notin Range(F.collections) THEN name
        ELSE LET free == {k \in 1..9 :
                             (name \o ".00" \o Ch(Digits, k + 1)) \notin Range(F.collections)}
             IN  name \o ".00" \o Ch(Digits, MinOf(free) + 1)

(* a call that raises: nothing returned, nothing created *)
Raised(F, exception) == [F |-> F, ret |-> None, created |-> {}, raised |-> exception]

(* faulty variant: the new collection takes the place of the parent's children *)
get_or_create_collection_replacing(v, F, parent_collection, child_name) ==
    IF parent_collection = None \/ child_name = "" THEN Raised(F, "AssertionError")
    ELSE IF child_name \in F.children[parent_collection]
    THEN [F |-> F, ret |-> child_name, created |-> {}, raised |-> ""]
    ELSE LET new_coll == unique_name(F, child_name)
         IN  [F |-> [collections |-> Append(F.collections, new_coll),
                     children |-> (new_coll :> {}) @@
                                  [F.children EXCEPT ![parent_collection] = {new_coll}]],
              ret |-> new_coll,
              created |-> {new_coll},
              raised |-> ""]

(* faulty variant: the link is made the wrong way round, the parent becomes a
   child of the new collection *)
get_or_create_collection_linkReversed(v, F, parent_collection, child_name) ==
    IF v = "core" /\ (parent_collection = None \/ child_name = "")
    THEN Raised(F, "AssertionError")
    ELSE IF parent_collection = None THEN Raised(F, "AttributeError")
    ELSE IF child_name \in F.children[parent_collection]
    THEN [F |-> F, ret |-> child_name, created |-> {}, raised |-> ""]
    ELSE LET new_coll == unique_name(F, child_name)
         IN  [F |-> [collections |-> Append(F.collections, new_coll),
                     children |-> (new_coll :> {parent_collection}) @@ F.children],
              ret |-> new_coll,
              created |-> {new_coll},
              raised |-> ""]

(* get_or_create_collection: the forest after the call, the collection
   returned, the collections created and the exception raised ("" for none).
   src/core asserts its arguments; src/utils.py has no assert and raises on
   parent_collection.children of None only *)
get_or_create_collection(v, F, parent_collection, child_name) ==
    IF v = "core" /\ (parent_collection = None \/ child_name = "")
    THEN Raised(F, "AssertionError")
    ELSE IF parent_collection = None THEN Raised(F, "AttributeError")
    ELSE IF child_name \in F.children[parent_collection]
    THEN [F |-> F, ret |-> child_name, created |-> {}, raised |-> ""]
    ELSE LET new_coll == unique_name(F, child_name)
         IN  [F |-> [collections |-> Append(F.collections, new_coll),
                     children |-> (new_coll :> {}) @@
                                  [F.children EXCEPT ![parent_collection] = @ \cup {new_coll}]],
              ret |-> new_coll,
              created |-> {new_coll},
              raised |-> ""]

(* a chain of get_or_create_collection calls, each under the collection the
   call before it returned *)
RECURSIVE CreatePath(_, _, _, _)
CreatePath(v, F, parent_collection, names) ==
    IF names = <<>> THEN [F |-> F, ret |-> parent_collection, created |-> {}, raised |-> ""]
    ELSE LET first == get_or_create_collection(v, F, parent_collection, Head(names))
             rest == CreatePath(v, first.F, first.ret, Tail(names))
         IN  IF first.raised # "" THEN first
             ELSE [rest EXCEPT !.created = first.created \cup @]

(* faulty variant: the loop stores the parent found and goes on to the end,
   where None is stored and returned *)
find_parent_collection_noReturn(F, cache, child_name) ==
    IF child_name \in DOMAIN cache
    THEN [ret |-> cache[child_name], cache |-> cache]
    ELSE [ret |-> None, cache |-> (child_name :> None) @@ cache]

(* find_parent_collection: the parent found and the cache after the call *)
find_parent_collection(F, cache, child_name) ==
    IF child_name \in DOMAIN cache
    THEN [ret |-> cache[child_name], cache |-> cache]
    ELSE LET holders == {k \in 1..Len(F.collections) :
                             child_name \in F.children[F.collections[k]]}
             parent_coll == IF holders = {} THEN None ELSE F.collections[MinOf(holders)]
         IN  [ret |-> parent_coll, cache |-> (child_name :> parent_coll) @@ cache]

(* faulty variant: the name is tested as it is spelled, without upper() *)
RoleOfName_asSpelled(v, coll_name) ==
    IF Contains(coll_name, "VFX") THEN "VFX"
    ELSE IF Contains(coll_name, "MODEL") \/ Contains(coll_name, "ART") THEN "MODEL"
    ELSE IF v = "utils" /\ Contains(coll_name, "PROP") THEN "PROP"
    ELSE IF v = "utils" /\ Contains(coll_name, "ACTOR") THEN "ACTOR"
    ELSE None

(* the role a collection name stands for, or None; the names are tested in the
   order of the if statements *)
RoleOfName(v, coll_name) ==
    LET name == Upper(coll_name)
    IN  IF Contains(name, "VFX") THEN "VFX"
        ELSE IF Contains(name, "MODEL") \/ Contains(name, "ART") THEN "MODEL"
        ELSE IF v = "utils" /\ Contains(name, "PROP") THEN "PROP"
        ELSE IF v = "utils" /\ Contains(name, "ACTOR") THEN "ACTOR"
        ELSE None

(* faulty variant: the walk goes on to the top, without the safety break *)
RECURSIVE WalkUp_noBreak(_, _, _, _, _)
WalkUp_noBreak(v, F, cache, current_coll, hops) ==
    IF current_coll = None THEN [ret |-> None, cache |-> cache, looked |-> 0, lookups |-> {}]
    ELSE IF RoleOfName(v, current_coll) # None
         THEN [ret |-> RoleOfName(v, current_coll), cache |-> cache, looked |-> 1,
               lookups |-> {}]
    ELSE LET p == find_parent_collection(F, cache, current_coll)
             w == WalkUp_noBreak(v, F, p.cache, p.ret, hops)
         IN  [w EXCEPT !.looked = @ + 1, !.lookups = @ \cup {<<current_coll, p.ret>>}]

(* faulty variant: range(33), the walk looks at one collection more *)
RECURSIVE WalkUp_oneMore(_, _, _, _, _)
WalkUp_oneMore(v, F, cache, current_coll, hops) ==
    IF hops < 0 \/ current_coll = None THEN [ret |-> None, cache |-> cache, looked |-> 0, lookups |-> {}]
    ELSE IF RoleOfName(v, current_coll) # None
         THEN [ret |-> RoleOfName(v, current_coll), cache |-> cache, looked |-> 1,
               lookups |-> {}]
    ELSE LET p == find_parent_collection(F, cache, current_coll)
             w == WalkUp_oneMore(v, F, p.cache, p.ret, hops - 1)
         IN  [w EXCEPT !.looked = @ + 1, !.lookups = @ \cup {<<current_coll, p.ret>>}]

(* the inner loop of get_contextual_op_type: at most `hops` collections are
   looked at, starting from current_coll; `looked` is the number of collections
   whose name the loop has tested, `lookups` the find_parent_collection calls
   made, each as <<child, parent returned>> *)
RECURSIVE WalkUp(_, _, _, _, _)
WalkUp(v, F, cache, current_coll, hops) ==
    IF hops = 0 \/ current_coll = None THEN [ret |-> None, cache |-> cache, looked |-> 0, lookups |-> {}]
    ELSE IF RoleOfName(v, current_coll) # None
         THEN [ret |-> RoleOfName(v, current_coll), cache |-> cache, looked |-> 1,
               lookups |-> {}]
    ELSE LET p == find_parent_collection(F, cache, current_coll)
             w == WalkUp(v, F, p.cache, p.ret, hops - 1)
         IN  [w EXCEPT !.looked = @ + 1, !.lookups = @ \cup {<<current_coll, p.ret>>}]

(* the outer loop of get_contextual_op_type over obj.users_collection; `hops`
   lists, for each membership walked, the number of collections looked at *)
RECURSIVE WalkMemberships(_, _, _, _)
WalkMemberships(v, F, cache, colls) ==
    IF colls = <<>> THEN [ret |-> "MODEL", cache |-> cache, hops |-> <<>>, lookups |-> {}]
    ELSE LET w == WalkUp(v, F, cache, Head(colls), WalkLimit)
         IN  IF w.ret # None
             THEN [ret |-> w.ret, cache |-> w.cache, hops |-> <<w.looked>>,
                   lookups |-> w.lookups]
             ELSE LET rest == WalkMemberships(v, F, w.cache, Tail(colls))
                  IN  [rest EXCEPT !.hops = <<w.looked>> \o @,
                                   !.lookups = w.lookups \cup @]

(* get_contextual_op_type: _parent_cache.clear(), then the walk *)
get_contextual_op_type(v, F, users_collection) ==
    WalkMemberships(v, F, <<>>, users_collection)

RoleTagsInName == {"-ART", "-MODEL", "-SHOT", "-VFX"}

find_all_scene_collections(v, F) ==
    LET nested_collections == UNION {F.children[c] : c \in Range(F.collections)}
    IN  SelectSeq(F.collections,
            LAMBDA name : /\ name \notin nested_collections
                          /\ StartsWith(name, "+SC")
                          /\ EndsWith(name, "+")
                          /\ v = "core" => \A sub \in RoleTagsInName : ~Contains(name, sub))

find_top_level_scene_collection_by_str(v, F, scene_str) ==
    LET all_scenes == find_all_scene_collections(v, F)
        wanted == IF v = "core" THEN "+" \o Upper(scene_str) \o "-"
                  ELSE "+" \o scene_str \o "-"
        hits == {k \in 1..Len(all_scenes) : StartsWith(all_scenes[k], wanted)}
    IN  IF hits = {} THEN None ELSE all_scenes[MinOf(hits)]

NothingDone(F) == [F |-> F, ret |-> None, created |-> {}, raised |-> ""]

(* find_shot_collection: forest after the call, collection returned or None,
   collections created *)
find_shot_collection(v, F, scene_str, shot_str, op_type) ==
    LET top_level_scene_coll == find_top_level_scene_collection_by_str(v, F, scene_str)
    IN  IF top_level_scene_coll = None THEN NothingDone(F)
        ELSE IF v = "core"
        THEN LET location_name ==
                     Join(Tail(Split(Strip(top_level_scene_coll, "+"), "-")), "-")
                 sl == scene_str \o "-" \o location_name
                 ss == scene_str \o "-" \o shot_str
             IN  IF location_name = "" THEN NothingDone(F)
                 ELSE IF op_type = "MODEL"
                 THEN CreatePath(v, F, top_level_scene_coll,
                          <<"+" \o sl \o "-ART+", sl \o "-ART-SHOT", ss \o "-ART",
                            "MODEL-" \o ss>>)
                 ELSE IF op_type = "VFX"
                 THEN CreatePath(v, F, top_level_scene_coll,
                          <<"+" \o sl \o "-VFX+", sl \o "-VFX-SHOT", ss \o "-VFX">>)
                 ELSE NothingDone(F)
        ELSE LET base_name == Strip(top_level_scene_coll, "+")
                 ss == scene_str \o "-" \o shot_str
             IN  IF op_type = "MODEL"
                 THEN CreatePath(v, F, top_level_scene_coll,
                          <<"+ART-" \o base_name \o "+", "SHOT-ART-" \o base_name,
                            "MODEL-" \o ss>>)
                 ELSE IF op_type = "VFX"
                 THEN CreatePath(v, F, top_level_scene_coll,
                          <<"+VFX-" \o base_name \o "+", "SHOT-VFX-" \o base_name,
                            "VFX-" \o ss>>)
                 ELSE IF op_type \in {"ACTOR", "PROP"}
                 THEN CreatePath(v, F, top_level_scene_coll,
                          <<"+ANI-" \o base_name \o "+", "SHOT-ANI-" \o base_name,
                            op_type \o "-" \o ss>>)
                 ELSE NothingDone(F)

(* find_scene_collection *)
find_scene_collection(v, F, top_level_scene_coll, op_type) ==
    IF top_level_scene_coll = None THEN NothingDone(F)
    ELSE IF v = "core"
    THEN LET parts == Split(Strip(top_level_scene_coll, "+"), "-")
             scene_str == parts[1]
             location_name == Join(Tail(parts), "-")
             sl == scene_str \o "-" \o location_name
         IN  IF op_type = "MODEL"
             THEN CreatePath(v, F, top_level_scene_coll, <<"+" \o sl \o "-ART+", sl \o "-MODEL">>)
             ELSE IF op_type = "VFX"
             THEN CreatePath(v, F, top_level_scene_coll, <<"+" \o sl \o "-VFX+", sl \o "-VFX">>)
             ELSE NothingDone(F)
    ELSE LET base_name == Strip(top_level_scene_coll, "+")
         IN  IF op_type = "MODEL"
             THEN CreatePath(v, F, top_level_scene_coll,
                      <<"+ART-" \o base_name \o "+", "MODEL-" \o base_name>>)
             ELSE IF op_type = "VFX"
             THEN CreatePath(v, F, top_level_scene_coll,
                      <<"+VFX-" \o base_name \o "+", "VFX-" \o base_name>>)
             ELSE IF op_type \in {"ACTOR", "PROP"}
             THEN CreatePath(v, F, top_level_scene_coll,
                      <<"+ANI-" \o base_name \o "+", op_type \o "-" \o base_name>>)
             ELSE NothingDone(F)

-----------------------------------------------------------------------------
(***************************************************************************)
(* Visibility keyframing (src/core/object_utils.py, src/utils.py).  K maps *)
(* an object with animation data to its two channels, each a function from *)
(* the keyed frames to the value keyed (TRUE = hidden).                    *)
(***************************************************************************)
visibility_props == {"hide_viewport", "hide_render"}

(* obj.animation_data_create() / new_obj.animation_data_clear(): no keys *)
NoKeys == [prop \in visibility_props |-> <<>>]

ChannelsOf(K, obj) == IF obj \in DOMAIN K THEN K[obj] ELSE NoKeys

(* obj.keyframe_insert(data_path=prop, frame=frame) with the property at
   value: a key on that frame is replaced *)
keyframe_insert(fcurve, frame, value) == (frame :> value) @@ fcurve

(* faulty variant: the key after the range is not set *)
toggle_object_visibility_noRevert(v, K, obj, frame_range, hide) ==
    LET start_frame == frame_range[1]
        end_frame == frame_range[2]
        keyed(fcurve) ==
            keyframe_insert(
                keyframe_insert(
                    keyframe_insert(fcurve, start_frame - 1, ~hide),
                    start_frame, hide),
                end_frame, hide)
    IN  [K |-> (obj :> [prop \in visibility_props |-> keyed(ChannelsOf(K, obj)[prop])]) @@ K,
         raised |-> ""]

(* toggle_object_visibility: the keys after the call and the exception raised;
   src/core asserts start_frame <= end_frame, src/utils.py does not *)
toggle_object_visibility(v, K, obj, frame_range, hide) ==
    LET start_frame == frame_range[1]
        end_frame == frame_range[2]
        keyed(fcurve) ==
            keyframe_insert(
                keyframe_insert(
                    keyframe_insert(
                        keyframe_insert(fcurve, start_frame - 1, ~hide),
                        start_frame, hide),
                    end_frame, hide),
                end_frame + 1, ~hide)
    IN  IF v = "core" /\ start_frame > end_frame
        THEN [K |-> K, raised |-> "AssertionError"]
        ELSE [K |-> (obj :> [prop \in visibility_props |-> keyed(ChannelsOf(K, obj)[prop])])
                        @@ K,
              raised |-> ""]

(* the value of a channel on a frame: boolean channels are not interpolated,
   the key at or before the frame holds, and the first key before it *)
ValueAt(fcurve, frame) ==
    LET before == {f \in DOMAIN fcurve : f <= frame}
    IN  IF before # {} THEN fcurve[CHOOSE f \in before : \A g \in before : g <= f]
        ELSE fcurve[MinOf(DOMAIN fcurve)]

(* bpy.data.objects keeps object names unique the way collections are *)
unique_object_name(objs, name) ==
    IF name \notin objs THEN name
    ELSE LET free == {k \in 1..9 : (name \o ".00" \o Ch(Digits, k + 1)) \notin objs}
         IN  name \o ".00" \o Ch(Digits, MinOf(free) + 1)

(* utils.generate_new_name(original_obj, target_collection) of src/operators.py,
   which src/utils.py does not define: a name made of the original's and the
   target collection's *)
generate_new_name(original_obj, target_collection) ==
    original_obj \o "-" \o target_collection

-----------------------------------------------------------------------------
(***************************************************************************)
(* The record of a call: rep = 2 when the call before it was the same      *)
(* operation on the same arguments, and prev_ret is then what that call    *)
(* returned.                                                               *)
(***************************************************************************)
Call(op, args, ret, created) ==
    LET again == last.op = op /\ last.args = args
    IN  [op |-> op, args |-> args, ret |-> ret, created |-> created, hops |-> <<>>,
         lookups |-> {}, raised |-> "", toggles |-> <<>>, loop |-> <<>>,
         calls |-> last.calls + 1,
         rep |-> IF again THEN 2 ELSE 1,
         prev_ret |-> IF again THEN last.ret ELSE NoResult]

(* the record of a call of a function that reads the timeline only *)
Query(op, args, ret) ==
    [op |-> op, args |-> args, ret |-> ret, created |-> {}, hops |-> <<>>,
     lookups |-> {}, raised |-> "", toggles |-> <<>>, loop |-> <<>>,
     calls |-> 1, rep |-> 1,
     prev_ret |-> NoResult]

NoCall == [op |-> "none", args |-> <<>>, ret |-> NoResult, created |-> {},
           hops |-> <<>>, lookups |-> {}, raised |-> "",
           toggles |-> <<>>, loop |-> <<>>, calls |-> 0, rep |-> 0,
           prev_ret |-> NoResult]

-----------------------------------------------------------------------------
(***************************************************************************)
(* The timeline: markers, playhead and scene end are set by the user       *)
(***************************************************************************)
MarkerNames == {"CAM-SC17-SH100", "cam-sc18-sh110-FLAT", "NOTE-SC17-X"}
SceneStrs == {"sc17", "SC19"}
Frames == 1..MaxFrame
FrameEnds == {1, 2, MaxFrame + 1}
Playheads == 0..(MaxFrame + 1)

Marker == [name : MarkerNames, frame : Frames, camera : BOOLEAN]

InitTimeline ==
    /\ variant = "core"
    /\ collections = <<>>
    /\ children = <<>>
    /\ users = <<>>
    /\ parent_cache = <<>>
    /\ markers \in UNION {[1..n -> Marker] : n \in 0..MaxMarkers}
    /\ frame_current \in Playheads
    /\ frame_end \in FrameEnds
    /\ keyframes = <<>>
    /\ copies = {}
    /\ last = NoCall

GetCurrentShotInfo ==
    /\ last' = Query("get_current_shot_info", <<>>,
                     get_current_shot_info(markers, frame_current, frame_end))
    /\ UNCHANGED <<variant, forestVars, timelineVars, objectVars>>

GetSceneFrameRange(scene_str) ==
    /\ last' = Query("get_scene_frame_range", <<scene_str>>,
                     get_scene_frame_range(markers, frame_end, scene_str))
    /\ UNCHANGED <<variant, forestVars, timelineVars, objectVars>>

NextTimeline ==
    \/ GetCurrentShotInfo
    \/ \E scene_str \in SceneStrs : GetSceneFrameRange(scene_str)

SpecTimeline == InitTimeline /\ [][NextTimeline]_vars

-----------------------------------------------------------------------------
(***************************************************************************)
(* The files the add-on is run on: forests a user's file can hold, with    *)
(* the objects linked into them.  The registry lists are in name order.    *)
(***************************************************************************)
MkForest(colls, links, objs) ==
    [collections |-> colls,
     children |-> [c \in Range(colls) |-> {l[2] : l \in {x \in links : x[1] = c}}],
     users |-> objs]

(* scene roots only, nothing resolved yet *)
FreshFile ==
    MkForest(<<"+ENV-FOREST+", "+SC17-FOREST+", "+SC18-APOLLO-CRASH+", "ENV-FOREST-VFX">>,
             {<<"+ENV-FOREST+", "ENV-FOREST-VFX">>},
             [Cube |-> <<"+SC17-FOREST+">>, Smoke |-> <<"ENV-FOREST-VFX">>])

(* a file in which src/utils.py has resolved MODEL for SC17/SH100 *)
UtilsFile ==
    MkForest(<<"+ART-SC17-FOREST+", "+SC17-FOREST+", "MODEL-SC17-SH100",
               "SHOT-ART-SC17-FOREST">>,
             {<<"+SC17-FOREST+", "+ART-SC17-FOREST+">>,
              <<"+ART-SC17-FOREST+", "SHOT-ART-SC17-FOREST">>,
              <<"SHOT-ART-SC17-FOREST", "MODEL-SC17-SH100">>},
             [Cube |-> <<"MODEL-SC17-SH100">>, Smoke |-> <<>>])

(* a file in which src/core has resolved MODEL for SC17/SH100 *)
CoreFile ==
    MkForest(<<"+SC17-FOREST+", "+SC17-FOREST-ART+", "MODEL-SC17-SH100",
               "SC17-FOREST-ART-SHOT", "SC17-SH100-ART">>,
             {<<"+SC17-FOREST+", "+SC17-FOREST-ART+">>,
              <<"+SC17-FOREST-ART+", "SC17-FOREST-ART-SHOT">>,
              <<"SC17-FOREST-ART-SHOT", "SC17-SH100-ART">>,
              <<"SC17-SH100-ART", "MODEL-SC17-SH100">>},
             [Cube |-> <<"MODEL-SC17-SH100">>, Smoke |-> <<"+SC17-FOREST+">>])

(* the ART collection of SC17 sits at the top level, its scene root is gone *)
DetachedArtFile ==
    MkForest(<<"+SC17-FOREST-ART+", "+SC18-APOLLO-CRASH+", "SC17-FOREST-MODEL">>,
             {<<"+SC17-FOREST-ART+", "SC17-FOREST-MODEL">>},
             [Cube |-> <<"SC17-FOREST-MODEL">>, Smoke |-> <<>>])

(* the ART collection of SC17 sits at the top level beside its scene root *)
UnlinkedArtFile ==
    MkForest(<<"+SC17-FOREST+", "+SC17-FOREST-ART+">>,
             {},
             [Cube |-> <<"+SC17-FOREST-ART+", "+SC17-FOREST+">>, Smoke |-> <<>>])

(* the scene root is spelled in lower case *)
LowerCaseFile ==
    MkForest(<<"+sc17-FOREST+", "PROPS">>,
             {<<"+sc17-FOREST+", "PROPS">>},
             [Cube |-> <<"PROPS">>, Smoke |-> <<>>])

(* a scene root without a location, and one without the separator *)
NoLocationFile ==
    MkForest(<<"+SC17-+", "+SC18+">>,
             {},
             [Cube |-> <<"+SC17-+">>, Smoke |-> <<>>])

(* scene roots whose location has the letters of a role word in it *)
RoleWordFile ==
    MkForest(<<"+SC17-START+", "+SC18-NOVFX+">>,
             {},
             [Cube |-> <<"+SC17-START+">>, Smoke |-> <<"+SC18-NOVFX+">>])

Files == {FreshFile, UtilsFile, CoreFile, DetachedArtFile, UnlinkedArtFile,
          LowerCaseFile, NoLocationFile, RoleWordFile}

Objects == {"Cube", "Smoke"}
SceneArgs == {"SC17", "sc17"}
ShotArgs == {"SH100"}
OpTypes == {"MODEL", "VFX", "PROP", "LIGHT"}
ChildNames == {"MODEL-SC17-SH100"}

Forest == [collections |-> collections, children |-> children]

Some(x) == IF x = None THEN NoResult ELSE <<x>>

Init ==
    /\ variant \in {"core", "utils"}
    /\ \E file \in Files :
           /\ collections = file.collections
           /\ children = file.children
           /\ users = file.users
    /\ parent_cache = <<>>
    /\ markers = <<>>
    /\ frame_current = 0
    /\ frame_end = 0
    /\ keyframes = <<>>
    /\ copies = {}
    /\ last = NoCall

(* a call that may create collections *)
Resolved(op, args, r) ==
    /\ last.calls < MaxCalls
    /\ collections' = r.F.collections
    /\ children' = r.F.children
    /\ last' = [Call(op, args, Some(r.ret), r.created) EXCEPT !.raised = r.raised]
    /\ UNCHANGED <<variant, users, parent_cache, timelineVars, objectVars>>

GetOrCreateCollection(parent_collection, child_name) ==
    Resolved("get_or_create_collection", <<parent_collection, child_name>>,
             get_or_create_collection(variant, Forest, parent_collection, child_name))

FindTopLevelSceneCollectionByStr(scene_str) ==
    /\ last.calls < MaxCalls
    /\ last' = Call("find_top_level_scene_collection_by_str", <<scene_str>>,
                    Some(find_top_level_scene_collection_by_str(variant, Forest, scene_str)),
                    {})
    /\ UNCHANGED <<variant, forestVars, timelineVars, objectVars>>

FindShotCollection(scene_str, shot_str, op_type) ==
    Resolved("find_shot_collection", <<scene_str, shot_str, op_type>>,
             find_shot_collection(variant, Forest, scene_str, shot_str, op_type))

FindSceneCollection(top_level_scene_coll, op_type) ==
    Resolved("find_scene_collection", <<top_level_scene_coll, op_type>>,
             find_scene_collection(variant, Forest, top_level_scene_coll, op_type))

(* faulty variant: the diagnosis takes the object out of the collections it
   has walked *)
GetContextualOpType_unlinking(obj) ==
    LET r == get_contextual_op_type(variant, Forest, users[obj])
    IN  /\ last.calls < MaxCalls
        /\ parent_cache' = r.cache
        /\ users' = [users EXCEPT ![obj] = SubSeq(@, Len(r.hops) + 1, Len(@))]
        /\ last' = [Call("get_contextual_op_type", <<obj>>, <<r.ret>>, {})
                        EXCEPT !.hops = r.hops, !.lookups = r.lookups]
        /\ UNCHANGED <<variant, collections, children, timelineVars, objectVars>>

GetContextualOpType(obj) ==
    LET r == get_contextual_op_type(variant, Forest, users[obj])
    IN  /\ last.calls < MaxCalls
        /\ parent_cache' = r.cache
        /\ last' = [Call("get_contextual_op_type", <<obj>>, <<r.ret>>, {})
                        EXCEPT !.hops = r.hops, !.lookups = r.lookups]
        /\ UNCHANGED <<variant, collections, children, users, timelineVars, objectVars>>

Next ==
    \/ \E parent_collection \in Range(collections) \cup {None},
          child_name \in ChildNames \cup {""} :
           GetOrCreateCollection(parent_collection, child_name)
    \/ \E scene_str \in SceneArgs : FindTopLevelSceneCollectionByStr(scene_str)
    \/ \E scene_str \in SceneArgs, shot_str \in ShotArgs, op_type \in OpTypes :
           FindShotCollection(scene_str, shot_str, op_type)
    \/ \E top_level_scene_coll \in Range(find_all_scene_collections(variant, Forest)),
          op_type \in OpTypes :
           FindSceneCollection(top_level_scene_coll, op_type)
    \/ \E obj \in Objects : GetContextualOpType(obj)

Spec == Init /\ [][Next]_vars

-----------------------------------------------------------------------------
(***************************************************************************)
(* Files for the classification of objects: a chain Top > Mid > Bot and a  *)
(* collection Side, named after every choice of words, with the object     *)
(* Cube linked into up to two of them; and a chain one collection longer   *)
(* than the walk of get_contextual_op_type goes.                           *)
(***************************************************************************)
Words == {"PLAIN", "vfx", "MODEL", "START", "PROP"}
SideWords == {"PLAIN", "VFX", "ACTOR"}

ChainFile(b, m, t, x, shared, memberships) ==
    MkForest(<<"B-" \o b, "M-" \o m, "S-" \o x, "T-" \o t>>,
             {<<"T-" \o t, "M-" \o m>>, <<"M-" \o m, "B-" \o b>>}
                 \cup (IF shared THEN {<<"S-" \o x, "B-" \o b>>} ELSE {}),
             [Cube |-> memberships, Smoke |-> <<>>])

Memberships(b, m, x) ==
    LET cs == {"B-" \o b, "M-" \o m, "S-" \o x}
    IN  {<<>>} \cup {<<c>> : c \in cs}
               \cup {p \in cs \X cs : p[1] # p[2]}

DeepName(k) == "D" \o Ch(Digits, (k \div 10) + 1) \o Ch(Digits, (k % 10) + 1)

(* VFX-DEEP > D01 > D02 > ... > D32: Cube is in the last, Smoke in the last but one *)
DeepFile ==
    MkForest([k \in 1..(WalkLimit + 1) |-> IF k = 1 THEN "VFX-DEEP" ELSE DeepName(k - 1)],
             {<<"VFX-DEEP", DeepName(1)>>}
                 \cup {<<DeepName(k), DeepName(k + 1)>> : k \in 1..(WalkLimit - 1)},
             [Cube |-> <<DeepName(WalkLimit)>>, Smoke |-> <<DeepName(WalkLimit - 1)>>])

ChainFiles ==
    UNION {{ChainFile(b, m, t, x, shared, ms) :
                shared \in BOOLEAN, ms \in Memberships(b, m, x)} :
           b \in Words, m \in Words, t \in Words, x \in SideWords}

InitClassify ==
    /\ variant \in {"core", "utils"}
    /\ \E file \in {DeepFile} \cup ChainFiles :
           /\ collections = file.collections
           /\ children = file.children
           /\ users = file.users
    /\ parent_cache = <<>>
    /\ markers = <<>>
    /\ frame_current = 0
    /\ frame_end = 0
    /\ keyframes = <<>>
    /\ copies = {}
    /\ last = NoCall

NextClassify == \E obj \in Objects : GetContextualOpType(obj)

SpecClassify == InitClassify /\ [][NextClassify]_vars

-----------------------------------------------------------------------------
(***************************************************************************)
(* Files with a malformed parent relation, which the walk of               *)
(* get_contextual_op_type is meant to survive ("Safety break for deep or   *)
(* recursive hierarchies"): two collections that list each other, a        *)
(* collection that lists itself, and a collection listed by two parents.   *)
(* Cube is in the first collection, Smoke in both.                         *)
(***************************************************************************)
CycleWords == {"PLAIN", "LOOP", "SET", "vfx", "PROP"}

CycleFile(a, b, selfLoop, twoParents) ==
    MkForest(<<"A-" \o a, "B-" \o b, "C-SPARE">>,
             (IF selfLoop THEN {<<"A-" \o a, "A-" \o a>>}
                          ELSE {<<"A-" \o a, "B-" \o b>>, <<"B-" \o b, "A-" \o a>>})
                 \cup (IF twoParents THEN {<<"C-SPARE", "A-" \o a>>} ELSE {}),
             [Cube |-> <<"A-" \o a>>, Smoke |-> <<"B-" \o b, "A-" \o a>>])

CycleFiles ==
    {CycleFile(a, b, selfLoop, twoParents) :
         a \in CycleWords, b \in CycleWords, selfLoop \in BOOLEAN, twoParents \in BOOLEAN}

InitMalformed ==
    /\ variant \in {"core", "utils"}
    /\ \E file \in {DeepFile} \cup CycleFiles :
           /\ collections = file.collections
           /\ children = file.children
           /\ users = file.users
    /\ parent_cache = <<>>
    /\ markers = <<>>
    /\ frame_current = 0
    /\ frame_end = 0
    /\ keyframes = <<>>
    /\ copies = {}
    /\ last = NoCall

SpecMalformed == InitMalformed /\ [][NextClassify]_vars

-----------------------------------------------------------------------------
(***************************************************************************)
(* The copy operators (src/operators/copy_to_current_shot.py,              *)
(* src/operators/copy_to_current_scene.py, src/operators.py).  The user    *)
(* moves the playhead and runs an operator on the active object.           *)
(***************************************************************************)
MaxCopies == 2         \* a run makes at most this many operator calls

(* the two toggle_object_visibility calls at the end of a copy operator: the
   keys after them, the exception raised, and the calls made *)
KeyBoth(v, K, original_obj, new_obj, frame_range) ==
    LET t1 == toggle_object_visibility(v, K, original_obj, frame_range, TRUE)
        t2 == toggle_object_visibility(v, t1.K, new_obj, frame_range, FALSE)
        call(o, hide, t) == [obj |-> o, start |-> frame_range[1], end |-> frame_range[2],
                             hide |-> hide, raised |-> t.raised]
    IN  IF t1.raised # ""
        THEN [K |-> t1.K, raised |-> t1.raised, toggles |-> <<call(original_obj, TRUE, t1)>>]
        ELSE [K |-> t2.K, raised |-> t2.raised,
              toggles |-> <<call(original_obj, TRUE, t1), call(new_obj, FALSE, t2)>>]

(* faulty variant: the object is copied before the target is looked for, and
   the copy stays behind *)
Cancelled_copyFirst(op, obj, cls, res) ==
    /\ collections' = res.F.collections
    /\ children' = res.F.children
    /\ parent_cache' = cls.cache
    /\ users' = (unique_object_name(DOMAIN users, obj \o ".001") :> <<>>) @@ users
    /\ last' = Call(op, <<obj>>, <<"CANCELLED">>, res.created)
    /\ UNCHANGED <<variant, timelineVars, objectVars>>

(* the end of an operator: report and return {'CANCELLED'} *)
Cancelled(op, obj, cls, res) ==
    /\ collections' = res.F.collections
    /\ children' = res.F.children
    /\ parent_cache' = cls.cache
    /\ last' = Call(op, <<obj>>, <<"CANCELLED">>, res.created)
    /\ UNCHANGED <<variant, users, timelineVars, objectVars>>

(* the rest of an operator once the target collection is there: the copy is
   named and linked into the target, then the visibility of both is keyed
   (frame_range is <<>> where the operator goes on without a range) *)
CopiedInto(op, obj, cls, res, wanted_name, frame_range) ==
    LET new_obj == unique_object_name(DOMAIN users, wanted_name)
        keyed == IF frame_range = <<>>
                 THEN [K |-> keyframes, raised |-> "", toggles |-> <<>>]
                 ELSE KeyBoth(variant, keyframes, obj, new_obj, frame_range)
    IN  /\ collections' = res.F.collections
        /\ children' = res.F.children
        /\ parent_cache' = cls.cache
        /\ users' = (new_obj :> <<res.ret>>) @@ users
        /\ keyframes' = keyed.K
        /\ copies' = copies \cup {[original |-> obj, copy |-> new_obj, op |-> op,
                                    range |-> frame_range]}
        /\ last' = [Call(op, <<obj>>,
                         IF keyed.raised = "" THEN <<"FINISHED">> ELSE NoResult,
                         res.created)
                        EXCEPT !.raised = keyed.raised, !.toggles = keyed.toggles]
        /\ UNCHANGED <<variant, timelineVars>>

(* ADVCOPY_OT_copy_to_current_shot: poll, then execute *)
CopyToCurrentShot(obj) ==
    LET shot_info == get_current_shot_info(markers, frame_current, frame_end)
        cls == get_contextual_op_type(variant, Forest, users[obj])
        res == find_shot_collection(variant, Forest, shot_info[1].scene_str,
                                    shot_info[1].shot_str, cls.ret)
        wanted_name ==
            IF variant = "core"
            THEN obj \o "." \o shot_info[1].scene_str \o "." \o shot_info[1].shot_str
            ELSE generate_new_name(obj, res.ret)
    IN  /\ last.calls < MaxCopies
        /\ obj \in DOMAIN users
        /\ shot_info # NoResult
        /\ IF res.ret = None
           THEN Cancelled("copy_to_current_shot", obj, cls, res)
           ELSE CopiedInto("copy_to_current_shot", obj, cls, res, wanted_name,
                           <<shot_info[1].start, shot_info[1].end>>)

(* ADVCOPY_OT_copy_to_current_scene: poll, then execute.  Without a scene
   range src/operators/ goes on with the copy and keys nothing, and
   src/operators.py cancels *)
CopyToCurrentScene(obj) ==
    LET shot_info == get_current_shot_info(markers, frame_current, frame_end)
        scene_str == shot_info[1].scene_str
        cls == get_contextual_op_type(variant, Forest, users[obj])
        top_level_coll == find_top_level_scene_collection_by_str(variant, Forest, scene_str)
        res == find_scene_collection(variant, Forest, top_level_coll, cls.ret)
        frame_range == get_scene_frame_range(markers, frame_end, scene_str)
        wanted_name == IF variant = "core" THEN obj \o "." \o scene_str
                       ELSE generate_new_name(obj, res.ret)
    IN  /\ last.calls < MaxCopies
        /\ obj \in DOMAIN users
        /\ shot_info # NoResult
        /\ IF res.ret = None \/ (variant = "utils" /\ frame_range = NoResult)
           THEN Cancelled("copy_to_current_scene", obj, cls, res)
           ELSE CopiedInto("copy_to_current_scene", obj, cls, res, wanted_name, frame_range)

(* faulty variant: the loop stops after the first copy *)
RECURSIVE MoveLoop_firstOnly(_, _, _, _, _, _, _)
MoveLoop_firstOnly(v, F, U, K, original_obj, op_type, scene_collections) ==
    IF scene_collections = <<>>
    THEN [F |-> F, U |-> U, K |-> K, created |-> {}, loop |-> <<>>]
    ELSE LET scene_coll == Head(scene_collections)
             res == find_scene_collection(v, F, scene_coll, op_type)
             new_obj == unique_object_name(DOMAIN U,
                            original_obj \o "." \o Split(Strip(scene_coll, "+"), "-")[1])
         IN  IF res.ret = None
             THEN LET rest == MoveLoop_firstOnly(v, res.F, U, K, original_obj, op_type,
                                                 Tail(scene_collections))
                  IN  [rest EXCEPT !.loop = <<[scene_coll |-> scene_coll, target |-> None,
                                               new_obj |-> None]>> \o @]
             ELSE [F |-> res.F, U |-> (new_obj :> <<res.ret>>) @@ U, K |-> K,
                   created |-> res.created,
                   loop |-> <<[scene_coll |-> scene_coll, target |-> res.ret,
                               new_obj |-> new_obj]>>]

(* the loop of move_to_all_scenes over the scene roots: the forest, the
   objects with the collections they are in and the keys after it, the
   collections created, and for each root the target resolved and the copy
   linked into it (None where the root was skipped).  The copy keeps the
   animation data of the original *)
RECURSIVE MoveLoop(_, _, _, _, _, _, _)
MoveLoop(v, F, U, K, original_obj, op_type, scene_collections) ==
    IF scene_collections = <<>>
    THEN [F |-> F, U |-> U, K |-> K, created |-> {}, loop |-> <<>>]
    ELSE LET scene_coll == Head(scene_collections)
             res == find_scene_collection(v, F, scene_coll, op_type)
             wanted_name ==
                 IF v = "core"
                 THEN original_obj \o "." \o Split(Strip(scene_coll, "+"), "-")[1]
                 ELSE generate_new_name(original_obj, res.ret)
             new_obj == unique_object_name(DOMAIN U, wanted_name)
             skipped == res.ret = None
             rest == MoveLoop(v, res.F,
                              IF skipped THEN U ELSE (new_obj :> <<res.ret>>) @@ U,
                              IF skipped \/ original_obj \notin DOMAIN K THEN K
                              ELSE (new_obj :> K[original_obj]) @@ K,
                              original_obj, op_type, Tail(scene_collections))
         IN  [rest EXCEPT !.created = res.created \cup @,
                          !.loop = <<[scene_coll |-> scene_coll, target |-> res.ret,
                                      new_obj |-> IF skipped THEN None ELSE new_obj]>> \o @]

(* the map f without the key x *)
Without(f, x) == [y \in DOMAIN f \ {x} |-> f[y]]

(* ADVCOPY_OT_move_to_all_scenes: poll, then execute.  After
   bpy.data.objects.remove(original_obj) the report reads original_obj.name, a
   reference to a removed object: the host raises ReferenceError or the read
   goes through, and the operator returns {'FINISHED'} *)
MoveToAllScenes(obj) ==
    /\ last.calls < MaxCopies
    /\ obj \in DOMAIN users
    /\ \E cls \in {get_contextual_op_type(variant, Forest, users[obj])},
          scene_collections \in {find_all_scene_collections(variant, Forest)} :
         /\ Len(scene_collections) > 0
         /\ \E done \in {MoveLoop(variant, Forest, users, keyframes, obj, cls.ret,
                                   scene_collections)} :
              LET made == {[original |-> obj, copy |-> done.loop[i].new_obj,
                            op |-> "move_to_all_scenes", range |-> <<>>] :
                               i \in {j \in 1..Len(done.loop) : done.loop[j].new_obj # None}}
                  copies_made == Cardinality(made)
              IN  /\ collections' = done.F.collections
                  /\ children' = done.F.children
                  /\ parent_cache' = cls.cache
                  /\ copies' = copies \cup made
                  /\ IF copies_made > 0
                     THEN /\ users' = Without(done.U, obj)
                          /\ keyframes' = Without(done.K, obj)
                          /\ \E outcome \in {"FINISHED", "ReferenceError"} :
                                 last' = [Call("move_to_all_scenes", <<obj>>,
                                               IF outcome = "FINISHED" THEN <<"FINISHED">>
                                               ELSE NoResult,
                                               done.created)
                                              EXCEPT !.loop = done.loop,
                                                     !.raised = IF outcome = "FINISHED" THEN ""
                                                                ELSE outcome]
                     ELSE /\ users' = done.U
                          /\ keyframes' = done.K
                          /\ last' = [Call("move_to_all_scenes", <<obj>>, <<"CANCELLED">>,
                                           done.created)
                                          EXCEPT !.loop = done.loop]
    /\ UNCHANGED <<variant, timelineVars>>

(* the user moves the playhead *)
SetFrameCurrent(frame) ==
    /\ frame # frame_current
    /\ frame_current' = frame
    /\ UNCHANGED <<variant, forestVars, markers, frame_end, objectVars, last>>

(* shots that follow one another without a gap *)
AdjacentShots ==
    [markers |-> <<[name |-> "CAM-SC17-SH100", frame |-> 1, camera |-> TRUE],
                   [name |-> "CAM-SC17-SH110", frame |-> 3, camera |-> TRUE],
                   [name |-> "CAM-SC18-SH100", frame |-> 5, camera |-> TRUE]>>,
     frame_end |-> 6]

(* a scene that comes back after another one, and the scene end set before
   the first marker *)
InterleavedScenes ==
    [markers |-> <<[name |-> "CAM-SC17-SH100", frame |-> 2, camera |-> TRUE],
                   [name |-> "CAM-SC18-SH100", frame |-> 3, camera |-> TRUE],
                   [name |-> "CAM-SC17-SH110", frame |-> 4, camera |-> TRUE]>>,
     frame_end |-> 1]

(* a shot of a scene that has no collection in the file *)
SceneWithoutRoot ==
    [markers |-> <<[name |-> "CAM-SC17-SH100", frame |-> 1, camera |-> TRUE],
                   [name |-> "cam-sc19-sh100-FLAT", frame |-> 3, camera |-> TRUE]>>,
     frame_end |-> 4]

CopyTimelines == {AdjacentShots, InterleavedScenes, SceneWithoutRoot}
CopyPlayheads == 0..6

InitCopy ==
    /\ variant \in {"core", "utils"}
    /\ collections = FreshFile.collections
    /\ children = FreshFile.children
    /\ users = FreshFile.users
    /\ parent_cache = <<>>
    /\ \E timeline \in CopyTimelines :
           /\ markers = timeline.markers
           /\ frame_end = timeline.frame_end
    /\ frame_current = 0
    /\ keyframes = <<>>
    /\ copies = {}
    /\ last = NoCall

NextCopy ==
    \/ \E frame \in CopyPlayheads : SetFrameCurrent(frame)
    \/ \E obj \in Objects : CopyToCurrentShot(obj)
    \/ \E obj \in Objects : CopyToCurrentScene(obj)
    \/ \E obj \in Objects : MoveToAllScenes(obj)

SpecCopy == InitCopy /\ [][NextCopy]_vars

-----------------------------------------------------------------------------
(***************************************************************************)
(* Claims about the resolver (checked under Spec)                          *)
(***************************************************************************)
Parentless(c) == \A p \in Range(collections) : c \notin children[p]

(* C1: get_or_create_collection called twice in a row with the same parent and
   non-empty name returns the same collection both times, the second call creates
   nothing, and the parent then has exactly one child of that name *)
C1_Idempotent ==
    (last.op = "get_or_create_collection" /\ last.rep = 2
        /\ last.args[1] # None /\ last.args[2] # "") =>
        /\ last.ret = last.prev_ret
        /\ last.created = {}
        /\ Cardinality({c \in children[last.args[1]] : c = last.args[2]}) = 1

(* C2: find_shot_collection / find_scene_collection called twice in a row with
   the same arguments, the scene root being there, returns the same collection
   both times and the second call adds no collection *)
C2_ResolveTwice ==
    (/\ last.op \in {"find_shot_collection", "find_scene_collection"}
     /\ last.rep = 2
     /\ last.op = "find_shot_collection" =>
            find_top_level_scene_collection_by_str(variant, Forest, last.args[1]) # None)
    => (last.ret = last.prev_ret /\ last.created = {})

RootCalled == last.op = "find_top_level_scene_collection_by_str"

(* C7: the scene root found never has -ART, -MODEL, -SHOT or -VFX in its name;
   +SC17-FOREST-ART+ is not returned for SC17, and a parentless +SC17-FOREST+
   is accepted *)
C7_NoRoleTagRoot ==
    RootCalled =>
        /\ last.ret # NoResult => \A sub \in RoleTagsInName : ~Contains(last.ret[1], sub)
        /\ (/\ last.args[1] = "SC17"
            /\ "+SC17-FOREST+" \in Range(collections)
            /\ Parentless("+SC17-FOREST+")) => last.ret = <<"+SC17-FOREST+">>

(* a parentless collection wrapped in + whose name begins with +<scene_id>-,
   the case of the id letters put aside *)
RootCandidate(c, scene_str) ==
    /\ Parentless(c)
    /\ StartsWith(c, "+") /\ EndsWith(c, "+")
    /\ StartsWith(Upper(c), "+" \o Upper(scene_str) \o "-")

(* C8: the scene root found is parentless, wrapped in + and begins with
   +<scene_id>-; a root that differs from the requested id in letter case only
   is found; with no such collection the result is none *)
C8_RootByIdAnyCase ==
    RootCalled =>
        LET scene_str == last.args[1]
            candidates == {c \in Range(collections) : RootCandidate(c, scene_str)}
        IN  /\ last.ret # NoResult => last.ret[1] \in candidates
            /\ candidates = {} => last.ret = NoResult
            /\ (\E c \in candidates : \A sub \in RoleTagsInName : ~Contains(c, sub))
                   => last.ret # NoResult

-----------------------------------------------------------------------------
(***************************************************************************)
(* Claims about the classification (checked under SpecClassify).  The      *)
(* ancestry is stated over the children sets, without the parent cache.    *)
(***************************************************************************)
ClassifyCalled == last.op = "get_contextual_op_type"
HoldersOf(c) == {p \in Range(collections) : c \in children[p]}
(* the holder that comes first in the registry *)
FirstHolder(c) ==
    IF HoldersOf(c) = {} THEN None
    ELSE collections[MinOf({k \in 1..Len(collections) : collections[k] \in HoldersOf(c)})]

(* the collections the walk from c looks at: c and its ancestors, k at most *)
RECURSIVE PathFrom(_, _)
PathFrom(c, k) ==
    IF k = 0 \/ c = None THEN <<>> ELSE <<c>> \o PathFrom(FirstHolder(c), k - 1)

(* the walks from the memberships, one after the other *)
RECURSIVE Visits(_)
Visits(colls) ==
    IF colls = <<>> THEN <<>> ELSE PathFrom(Head(colls), WalkLimit) \o Visits(Tail(colls))

(* the collections within k parent steps of those of S, by whatever parent *)
RECURSIVE AncestorsWithin(_, _)
AncestorsWithin(S, k) ==
    IF k = 0 \/ S = {} THEN S
    ELSE S \cup AncestorsWithin(UNION {HoldersOf(c) : c \in S}, k - 1)

NameHas(c, tags) == \E t \in tags : Contains(Upper(c), t)
RoleTags == {"VFX", "MODEL", "ART", "PROP", "ACTOR"}

(* C9 as stated: for every collection the object is in, if the walk up from it
   reaches a name with VFX before any name with MODEL or ART, the result is VFX *)
C9_AsStated ==
    ClassifyCalled =>
        \A i \in 1..Len(users[last.args[1]]) :
            LET path == PathFrom(users[last.args[1]][i], WalkLimit)
            IN  (\E k \in 1..Len(path) :
                     /\ NameHas(path[k], {"VFX"})
                     /\ \A j \in 1..(k - 1) : ~NameHas(path[j], {"MODEL", "ART"}))
                => last.ret = <<"VFX">>

(* C9, amended: if, taking the object's memberships in order and walking up
   from each for at most 32 collections, a name with VFX is reached before any
   name with MODEL, ART, PROP or ACTOR, the result is VFX *)
C9_VfxFirst ==
    ClassifyCalled =>
        LET seen == Visits(users[last.args[1]])
        IN  (\E k \in 1..Len(seen) :
                 /\ NameHas(seen[k], {"VFX"})
                 /\ \A j \in 1..(k - 1) : ~NameHas(seen[j], {"MODEL", "ART", "PROP", "ACTOR"}))
            => last.ret = <<"VFX">>

C9_Witness ==
    /\ ClassifyCalled
    /\ last.ret = <<"VFX">>
    /\ Len(users[last.args[1]]) = 2
    /\ LET seen == Visits(users[last.args[1]])
       IN  \E k \in 3..Len(seen) :
               /\ NameHas(seen[k], {"VFX"})
               /\ \A j \in 1..(k - 1) : ~NameHas(seen[j], RoleTags)
               /\ \E j \in (k + 1)..Len(seen) : NameHas(seen[j], {"MODEL"})

(* C10: the result is MODEL for an object in no collection, and for an object
   none of whose collections has a role tag in its own name or in the name of
   an ancestor the 32-collection walk can reach *)
C10_DefaultModel ==
    ClassifyCalled =>
        LET colls == users[last.args[1]]
        IN  /\ colls = <<>> => last.ret = <<"MODEL">>
            /\ (\A a \in AncestorsWithin(Range(colls), WalkLimit - 1) : ~NameHas(a, RoleTags))
                   => last.ret = <<"MODEL">>

C10_Witness ==
    /\ ClassifyCalled
    /\ last.ret = <<"MODEL">>
    /\ users[last.args[1]] = <<DeepName(WalkLimit)>>
    /\ Len(PathFrom(DeepName(WalkLimit), WalkLimit + 1)) = WalkLimit + 1
    /\ NameHas(PathFrom(DeepName(WalkLimit), WalkLimit + 1)[WalkLimit + 1], {"VFX"})

-----------------------------------------------------------------------------
(* the roles get_contextual_op_type can return *)
Roles == IF variant = "core" THEN {"MODEL", "VFX"} ELSE {"MODEL", "VFX", "PROP", "ACTOR"}

(* C11: on every forest, one with a cyclic or otherwise malformed parent
   relation included, get_contextual_op_type returns a role, and for each
   membership it walks it looks at no more than 32 collections *)
C11_BoundedWalk ==
    ClassifyCalled =>
        /\ last.ret \in {<<r>> : r \in Roles}
        /\ Len(last.hops) <= Len(users[last.args[1]])
        /\ \A i \in 1..Len(last.hops) : last.hops[i] <= 32

(* a membership in a cycle without a role name was walked to the limit, and the
   default came out *)
C11_Witness ==
    /\ ClassifyCalled
    /\ \E c \in Range(collections) : \E d \in children[c] : c \in children[d]
    /\ \E i \in 1..Len(last.hops) : last.hops[i] = 32
    /\ last.ret = <<"MODEL">>

(* C12: get_contextual_op_type is a pure query on the forest: a call leaves
   the set of collections, every collection's children and the collections
   every object is in as they were *)
C12_PureQuery ==
    [][(last'.op = "get_contextual_op_type" /\ last'.calls # last.calls) =>
           /\ collections' = collections
           /\ children' = children
           /\ users' = users]_vars

(* the object of the call is in a collection, collections were created before
   the call, and the walk went up to a parent *)
C12_Witness ==
    /\ ClassifyCalled
    /\ last.calls >= 2
    /\ users[last.args[1]] # <<>>
    /\ last.lookups # {}
    /\ \E file \in Files : Len(collections) > Len(file.collections)
                           /\ SubSeq(collections, 1, Len(file.collections)) = file.collections

(* C13: in every state reached by get_contextual_op_type,
   get_or_create_collection, find_shot_collection and find_scene_collection
   calls in any order, each find_parent_collection lookup of a diagnosis has
   returned a collection that lists the given one as a child now, or None when
   no collection does; what _parent_cache holds is right as well *)
C13_ParentLookup ==
    /\ ClassifyCalled =>
            \A l \in last.lookups :
                IF HoldersOf(l[1]) = {} THEN l[2] = None ELSE l[2] \in HoldersOf(l[1])
    /\ \A c \in DOMAIN parent_cache :
            IF HoldersOf(c) = {} THEN parent_cache[c] = None
            ELSE parent_cache[c] \in HoldersOf(c)

(* a diagnosis made after collections were created has looked up a collection
   with a parent and one without *)
C13_Witness ==
    /\ ClassifyCalled
    /\ \E file \in Files : Len(collections) > Len(file.collections)
                           /\ SubSeq(collections, 1, Len(file.collections)) = file.collections
    /\ \E l \in last.lookups : l[2] # None
    /\ \E l \in last.lookups : l[2] = None /\ HoldersOf(l[1]) = {}

(* the op_type values the installed variant resolves *)
SupportedOpTypes ==
    IF variant = "core" THEN {"MODEL", "VFX"} ELSE {"MODEL", "VFX", "ACTOR", "PROP"}

ResolveCalled == last.op \in {"find_shot_collection", "find_scene_collection"}

(* the scene root a find_shot_collection / find_scene_collection call works
   on (the resolver creates nested collections only, so that the root found
   after the call is the one found by it) *)
RootOfCall ==
    IF last.op = "find_shot_collection"
    THEN find_top_level_scene_collection_by_str(variant, Forest, last.args[1])
    ELSE last.args[1]

(* the text inside +...+ has no "-" or nothing after the first "-" *)
Unparsable(root) ==
    LET parts == Split(Strip(root, "+"), "-")
    IN  Len(parts) < 2 \/ Join(Tail(parts), "-") = ""

(* C14: find_shot_collection / find_scene_collection return None and create
   nothing when op_type is not one the installed variant resolves, or when the
   scene root's name has no separator or no location after it *)
C14_NoneWhenUnresolvable ==
    (/\ ResolveCalled
     /\ RootOfCall # None
     /\ \/ last.args[Len(last.args)] \notin SupportedOpTypes
        \/ Unparsable(RootOfCall)) =>
        /\ last.ret = NoResult
        /\ last.created = {}

(* C15: get_or_create_collection raises when the parent is None or the name
   is empty, and then creates and links nothing; on a parent that exists and a
   non-empty name it raises nothing and returns a collection *)
C15_Precondition ==
    last.op = "get_or_create_collection" =>
        IF last.args[1] = None \/ last.args[2] = ""
        THEN last.raised # "" /\ last.created = {}
        ELSE last.raised = "" /\ last.ret # NoResult

(* the text after the first "-" inside the +...+ wrapper of a root's name *)
LocationOf(root) ==
    LET inner == SubSeq(root, 2, Len(root) - 1)
        dashes == {i \in 1..Len(inner) : Ch(inner, i) = "-"}
    IN  IF dashes = {} THEN "" ELSE SubSeq(inner, MinOf(dashes) + 1, Len(inner))

(* the names from the scene root down to the MODEL collection of a shot *)
ModelChain(root, scene, shot) ==
    LET sl == scene \o "-" \o LocationOf(root)
        ss == scene \o "-" \o shot
    IN  IF variant = "core"
        THEN <<root, "+" \o sl \o "-ART+", sl \o "-ART-SHOT", ss \o "-ART", "MODEL-" \o ss>>
        ELSE <<root, "+ART-" \o sl \o "+", "SHOT-ART-" \o sl, "MODEL-" \o ss>>

(* C16: when find_shot_collection(scene, shot, "MODEL") returns a collection,
   it is named MODEL-<scene>-<shot> and each collection of the fixed sequence
   of the installed variant, from the scene root down, lists the next as a
   child; <loc> is all the text after the first "-" of the root's name *)
C16_ModelChain ==
    (/\ last.op = "find_shot_collection"
     /\ last.args[3] = "MODEL"
     /\ last.ret # NoResult) =>
        LET chain == ModelChain(RootOfCall, last.args[1], last.args[2])
        IN  /\ last.ret = <<chain[Len(chain)]>>
            /\ \A i \in 1..(Len(chain) - 1) :
                   /\ chain[i] \in Range(collections)
                   /\ chain[i + 1] \in children[chain[i]]

(* the same for the calls in which every collection created got the name asked
   for *)
C16_ModelChainFreeNames ==
    (/\ last.op = "find_shot_collection"
     /\ last.args[3] = "MODEL"
     /\ last.ret # NoResult
     /\ \A c \in last.created : ~Contains(c, ".00")
     /\ ~Contains(last.ret[1], ".00")) =>
        LET chain == ModelChain(RootOfCall, last.args[1], last.args[2])
        IN  /\ last.ret = <<chain[Len(chain)]>>
            /\ \A i \in 1..(Len(chain) - 1) :
                   /\ chain[i] \in Range(collections)
                   /\ chain[i + 1] \in children[chain[i]]

(* C17: no call of the resolver deletes or detaches a collection: in every
   step the set of collections and every collection's set of children only
   grow, and the objects and the collections they are in stay as they are *)
C17_OnlyGrows ==
    [][/\ Range(collections) \subseteq Range(collections')
       /\ \A c \in Range(collections) : children[c] \subseteq children'[c]
       /\ users' = users]_vars

(* a call has created a collection under a parent that had other children *)
C17_Witness ==
    /\ last.created # {}
    /\ last.calls >= 2
    /\ \E p \in Range(collections) :
           /\ children[p] \cap last.created # {}
           /\ children[p] \ last.created # {}

(***************************************************************************)
(* Claims about the copy operators and the visibility keys (checked under  *)
(* SpecCopy)                                                               *)
(***************************************************************************)
(* an object is hidden / visible on a frame in viewport and render alike *)
HiddenAt(obj, frame) ==
    /\ obj \in DOMAIN keyframes
    /\ \A prop \in visibility_props :
           DOMAIN keyframes[obj][prop] # {} /\ ValueAt(keyframes[obj][prop], frame)

VisibleAt(obj, frame) ==
    /\ obj \in DOMAIN keyframes
    /\ \A prop \in visibility_props :
           DOMAIN keyframes[obj][prop] # {} /\ ~ValueAt(keyframes[obj][prop], frame)

CopiesOf(obj) == {c \in copies : c.original = obj}

(* all copies of obj were made by copy_to_current_shot, each in another shot *)
ShotCopiesOnly(obj) ==
    /\ \A c \in CopiesOf(obj) : c.op = "copy_to_current_shot"
    /\ \A c, d \in CopiesOf(obj) : c # d => c.range # d.range

(* C18: after copy_to_current_shot calls on one original in different shots,
   adjacent ones included, on every frame of every shot in which a copy was
   made the original is hidden and that shot's copy is visible *)
C18_HiddenInEveryShot ==
    \A obj \in Objects :
        ShotCopiesOnly(obj) =>
            \A c \in CopiesOf(obj) :
                \A frame \in c.range[1]..c.range[2] :
                    HiddenAt(obj, frame) /\ VisibleAt(c.copy, frame)

(* the toggle_object_visibility calls of the last operator call *)
Toggles == {last.toggles[i] : i \in 1..Len(last.toggles)}

(* C19: every (start, end) a copy operator gets from get_current_shot_info or
   get_scene_frame_range and hands to toggle_object_visibility has
   start <= end; with start > end the call would raise before it sets a key *)
C19_SpanOrdered ==
    \A t \in Toggles : t.start <= t.end

(* C20: toggle_object_visibility(obj, (start, end), hide) with start <= end
   keys hide_viewport and hide_render alike: not hide on start - 1, hide on
   start and on end, not hide on end + 1, so that with hide the object is
   visible on start - 1, hidden on start and on end and visible on end + 1,
   and the other way round without; an object without keys before has keys on
   these frames only *)
C20_FourKeys ==
    \A t \in Toggles :
        (t.raised = "" /\ t.start <= t.end) =>
            /\ t.obj \in DOMAIN keyframes
            /\ keyframes[t.obj]["hide_viewport"] = keyframes[t.obj]["hide_render"]
            /\ \A prop \in visibility_props :
                   LET fcurve == keyframes[t.obj][prop]
                   IN  /\ {t.start - 1, t.start, t.end, t.end + 1} \subseteq DOMAIN fcurve
                       /\ fcurve[t.start - 1] = ~t.hide
                       /\ fcurve[t.start] = t.hide
                       /\ fcurve[t.end] = t.hide
                       /\ fcurve[t.end + 1] = ~t.hide
                       /\ ValueAt(fcurve, t.start - 1) = ~t.hide
                       /\ ValueAt(fcurve, t.start) = t.hide
                       /\ ValueAt(fcurve, t.end) = t.hide
                       /\ ValueAt(fcurve, t.end + 1) = ~t.hide
                       /\ (\E c \in copies : c.copy = t.obj) =>
                              DOMAIN fcurve = {t.start - 1, t.start, t.end, t.end + 1}

(* an operator has keyed an original that had keys from a call before, hidden
   over a range of two frames, and its copy, shown over that range *)
C20_Witness ==
    /\ last.calls = 2
    /\ last.raised = ""
    /\ \E t \in Toggles : t.hide /\ t.start < t.end
                          /\ Cardinality(DOMAIN keyframes[t.obj]["hide_render"]) > 4
    /\ \E t \in Toggles : ~t.hide /\ t.start < t.end
                          /\ Cardinality(DOMAIN keyframes[t.obj]["hide_render"]) = 4

MoveCalled == last.op = "move_to_all_scenes"

(* the rounds of the loop of the last move_to_all_scenes in which a copy was
   made *)
CopyRounds == {i \in 1..Len(last.loop) : last.loop[i].new_obj # None}

(* C21: move_to_all_scenes removes the original if and only if it has made a
   copy; when it returns FINISHED the original is gone and every scene root
   whose target was resolved has got one new copy, linked into that target;
   every root is gone through, a root without target is skipped; when no copy
   is made the operator returns CANCELLED and the original is still there *)
C21_MoveAll ==
    MoveCalled =>
        LET obj == last.args[1]
        IN  /\ (obj \notin DOMAIN users) <=> (CopyRounds # {})
            /\ last.ret = <<"FINISHED">> => (CopyRounds # {} /\ obj \notin DOMAIN users)
            /\ last.ret = <<"CANCELLED">> => (CopyRounds = {} /\ obj \in DOMAIN users)
            /\ CopyRounds = {} => last.ret = <<"CANCELLED">>
            /\ [i \in 1..Len(last.loop) |-> last.loop[i].scene_coll]
                   = find_all_scene_collections(variant, Forest)
            /\ \A i \in 1..Len(last.loop) :
                   LET round == last.loop[i]
                   IN  IF round.target = None THEN round.new_obj = None
                       ELSE /\ round.new_obj \in DOMAIN users
                            /\ users[round.new_obj] = <<round.target>>
                            /\ [original |-> obj, copy |-> round.new_obj,
                                 op |-> "move_to_all_scenes", range |-> <<>>] \in copies
                            /\ \A j \in 1..Len(last.loop) :
                                   j # i => /\ last.loop[j].target # round.target
                                            /\ last.loop[j].new_obj # round.new_obj

(* the operator has returned FINISHED after copies into two scenes, on an
   object that was copied before *)
C21_Witness ==
    /\ MoveCalled
    /\ last.ret = <<"FINISHED">>
    /\ last.calls = 2
    /\ Cardinality(CopyRounds) = 2
    /\ last.args[1] \notin DOMAIN users
    /\ \E c \in copies : c.original = last.args[1] /\ c.op # "move_to_all_scenes"

(* C23: the collection find_shot_collection / find_scene_collection returns
   for an op_type is classified as that op_type: get_contextual_op_type on an
   object that is in that collection only gives the op_type asked for *)
C23_ClassifyAgrees ==
    (/\ ResolveCalled
     /\ last.ret # NoResult) =>
        get_contextual_op_type(variant, Forest, last.ret).ret
            = last.args[Len(last.args)]

(* the same for scene roots whose location has none of the role words in it *)
C23_PlainLocations ==
    (/\ ResolveCalled
     /\ last.ret # NoResult
     /\ ~NameHas(LocationOf(RootOfCall), RoleTags)) =>
        get_contextual_op_type(variant, Forest, last.ret).ret
            = last.args[Len(last.args)]

(* C24: no call changes what find_all_scene_collections returns: the scene
   roots after a step are the scene roots before it, in the same order; no
   collection created by the resolver is a scene root and no scene root stops
   being one *)
C24_RootsStable ==
    [][find_all_scene_collections(variant,
           [collections |-> collections', children |-> children'])
       = find_all_scene_collections(variant, Forest)]_vars

(* a second resolving call has created a collection whose name begins with
   +SC and ends with +, in a file that has scene roots *)
C24_Witness ==
    /\ ResolveCalled
    /\ last.calls >= 2
    /\ \E c \in last.created : StartsWith(c, "+SC") /\ EndsWith(c, "+")
    /\ find_all_scene_collections(variant, Forest) # <<>>
    /\ \A c \in last.created :
           c \notin Range(find_all_scene_collections(variant, Forest))

(* the orders in which the collections of users_collection can be listed *)
Orders(colls) ==
    {p \in [1..Len(colls) -> Range(colls)] : Range(p) = Range(colls)}

(* C25: get_contextual_op_type gives the same result for every order in which
   the collections the object is in are listed *)
C25_OrderIndependent ==
    ClassifyCalled =>
        \A p \in Orders(users[last.args[1]]) :
            get_contextual_op_type(variant, Forest, p).ret = last.ret[1]

(* C26: when get_current_shot_info returns a shot, the playhead is within its
   span, and get_scene_frame_range for the shot's scene on the same markers
   returns a span that contains the span of the shot *)
C26_ShotWithinScene ==
    (/\ last.op = "get_current_shot_info"
     /\ last.ret # NoResult) =>
        LET shot == last.ret[1]
            scene_range == get_scene_frame_range(markers, frame_end, shot.scene_str)
        IN  /\ shot.start <= frame_current
            /\ frame_current <= shot.end
            /\ scene_range # NoResult
            /\ scene_range[1] <= shot.start
            /\ shot.end <= scene_range[2]

(* the same without the last conjunct: the playhead is within the shot and the
   scene has a span that starts no later than the shot *)
C26_ShotStartWithinScene ==
    (/\ last.op = "get_current_shot_info"
     /\ last.ret # NoResult) =>
        LET shot == last.ret[1]
            scene_range == get_scene_frame_range(markers, frame_end, shot.scene_str)
        IN  /\ shot.start <= frame_current
            /\ frame_current <= shot.end
            /\ scene_range # NoResult
            /\ scene_range[1] <= shot.start

(* the scene root of the shot the playhead is in, None when there is none *)
RootOfCurrentShot ==
    find_top_level_scene_collection_by_str(variant, Forest,
        get_current_shot_info(markers, frame_current, frame_end)[1].scene_str)

(* C22: when there is no scene root for the scene of the current shot,
   copy_to_current_shot returns CANCELLED, raises nothing and leaves the file
   as it was: no collection created, no object copied or linked, no key set *)
C22_CancelKeepsFile ==
    [][(/\ last'.op = "copy_to_current_shot"
        /\ last'.calls # last.calls
        /\ RootOfCurrentShot = None) =>
           /\ last'.ret = <<"CANCELLED">>
           /\ last'.raised = ""
           /\ UNCHANGED <<collections, children, users, keyframes, copies>>]_vars

(* copy_to_current_shot was cancelled for want of a scene root, in a file in
   which an earlier call has made a copy *)
C22_Witness ==
    /\ last.op = "copy_to_current_shot"
    /\ last.ret = <<"CANCELLED">>
    /\ last.calls = 2
    /\ copies # {}
    /\ keyframes # <<>>
    /\ RootOfCurrentShot = None

(***************************************************************************)
(* Claims about the timeline helpers (checked under SpecTimeline).  The    *)
(* expected spans are stated over sets of markers, not over the sorted     *)
(* list the code walks.                                                    *)
(***************************************************************************)
CameraSet == {i \in 1..Len(markers) : markers[i].camera}
NotAfterPlayhead == {i \in CameraSet : markers[i].frame <= frame_current}
LatestFrame == MaxOf({markers[i].frame : i \in NotAfterPlayhead})
(* of the markers on the latest frame, sorted() keeps the last one last *)
ChosenMarker == MaxOf({i \in NotAfterPlayhead : markers[i].frame = LatestFrame})
LaterFrames == {markers[i].frame : i \in {j \in CameraSet : markers[j].frame > LatestFrame}}
ExpectedShotEnd == IF LaterFrames = {} THEN frame_end ELSE MinOf(LaterFrames) - 1
ShotCalled == last.op = "get_current_shot_info"
ShotSpanAsExpected ==
    /\ last.ret # NoResult
    /\ last.ret[1].name = markers[ChosenMarker].name
    /\ last.ret[1].start = LatestFrame
    /\ last.ret[1].end = ExpectedShotEnd

(* C3 as stated: whenever a camera-bound marker has frame <= current_frame and
   the chosen marker's name matches, the result is the span of the marker with
   the latest frame <= current_frame *)
C3_AsStated ==
    (/\ ShotCalled
     /\ NotAfterPlayhead # {}
     /\ re_match(markers[ChosenMarker].name) # NoResult)
    => ShotSpanAsExpected

(* C3, amended: the same, provided the playhead is not beyond the end of that
   span (current_frame <= scene_end when the chosen marker is the last one);
   beyond it the result is none *)
C3_ShotSpan ==
    (/\ ShotCalled
     /\ NotAfterPlayhead # {}
     /\ re_match(markers[ChosenMarker].name) # NoResult)
    => IF frame_current <= ExpectedShotEnd THEN ShotSpanAsExpected
       ELSE last.ret = NoResult

C3_Witness ==
    /\ ShotCalled
    /\ last.ret # NoResult
    /\ LaterFrames # {}
    /\ Cardinality(NotAfterPlayhead) >= 1
    /\ last.ret[1].end = MinOf(LaterFrames) - 1
    /\ last.ret[1].end > last.ret[1].start

(* C4: the result is none when there is no camera-bound marker, when every
   camera-bound marker is after the playhead, or when the chosen marker's name
   does not match CAM-SC<digits>-SH<digits>; and the result is the one computed
   from the camera-bound markers alone *)
C4_NoShot ==
    ShotCalled =>
        /\ CameraSet = {} => last.ret = NoResult
        /\ NotAfterPlayhead = {} => last.ret = NoResult
        /\ (NotAfterPlayhead # {} /\ re_match(markers[ChosenMarker].name) = NoResult)
               => last.ret = NoResult
        /\ last.ret = get_current_shot_info(SelectSeq(markers, LAMBDA m : m.camera),
                                            frame_current, frame_end)

C4_Witness ==
    /\ ShotCalled
    /\ last.ret = NoResult
    /\ NotAfterPlayhead # {}
    /\ frame_current <= ExpectedShotEnd
    /\ re_match(markers[ChosenMarker].name) = NoResult
    /\ \E i \in 1..Len(markers) :
           /\ ~markers[i].camera
           /\ markers[i].frame <= frame_current
           /\ markers[i].frame >= LatestFrame
           /\ re_match(markers[i].name) # NoResult

AllDigits(s) == s # "" /\ \A i \in 1..Len(s) : IsDigit(Ch(s, i))

(* C5: scene_str and shot_str of a result are the SC<digits> and SH<digits>
   parts at the start of the chosen marker's name, in upper case whatever the
   case of the name, and what follows SH<digits> plays no part *)
C5_Ids ==
    (ShotCalled /\ last.ret # NoResult) =>
        LET r == last.ret[1]
            prefix == "CAM-" \o r.scene_str \o "-" \o r.shot_str
        IN  /\ StartsWith(r.scene_str, "SC") /\ AllDigits(SubSeq(r.scene_str, 3, Len(r.scene_str)))
            /\ StartsWith(r.shot_str, "SH") /\ AllDigits(SubSeq(r.shot_str, 3, Len(r.shot_str)))
            /\ Len(r.name) >= Len(prefix)
            /\ Upper(SubSeq(r.name, 1, Len(prefix))) = prefix
            /\ Len(r.name) > Len(prefix) => ~IsDigit(Ch(r.name, Len(prefix) + 1))

C5_Witness ==
    /\ ShotCalled
    /\ last.ret # NoResult
    /\ last.ret[1].name = "cam-sc18-sh110-FLAT"
    /\ last.ret[1].scene_str = "SC18"
    /\ last.ret[1].shot_str = "SH110"

RangeCalled == last.op = "get_scene_frame_range"
SceneSet(scene_str) ==
    {i \in CameraSet : Contains(Upper(markers[i].name), "-" \o Upper(scene_str) \o "-")}
SceneLatestFrame(scene_str) == MaxOf({markers[i].frame : i \in SceneSet(scene_str)})
SceneLatest(scene_str) ==
    MaxOf({i \in SceneSet(scene_str) : markers[i].frame = SceneLatestFrame(scene_str)})
(* the camera-bound markers that sorted() puts after the scene's latest one *)
Followers(scene_str) ==
    {j \in CameraSet :
        \/ markers[j].frame > SceneLatestFrame(scene_str)
        \/ markers[j].frame = SceneLatestFrame(scene_str) /\ j > SceneLatest(scene_str)}

(* C6: none when no camera-bound marker name contains -<scene_id>- (in any
   case); otherwise start is the earliest frame of the scene's markers and end
   is the frame before the marker that follows the scene's latest marker, or
   scene_end when nothing follows it *)
C6_SceneSpan ==
    RangeCalled =>
        LET scene_str == last.args[1]
        IN  IF SceneSet(scene_str) = {} THEN last.ret = NoResult
            ELSE /\ last.ret # NoResult
                 /\ last.ret[1] = MinOf({markers[i].frame : i \in SceneSet(scene_str)})
                 /\ last.ret[2] =
                        IF Followers(scene_str) = {} THEN frame_end
                        ELSE MinOf({markers[j].frame : j \in Followers(scene_str)}) - 1

C6_Witness ==
    /\ RangeCalled
    /\ last.ret # NoResult
    /\ last.args[1] = "sc17"
    /\ Followers("sc17") # {}
    /\ last.ret[1] < last.ret[2]
    /\ last.ret[2] < frame_end

====
